---------------------------- MODULE Spec2Model ----------------------------
(***************************************************************************)
(* Model of LoginHandler (src/cogs/login_handler.py): the sliding-window   *)
(* request limiter, the per-alliance lock registry, the batch fetcher and  *)
(* the single-consumer operation queue.                                    *)
(*                                                                         *)
(* The program runs on one asyncio event loop, so a step of the model is   *)
(* the code a coroutine executes between two points where it really        *)
(* suspends (a network await, a sleep, a lock or queue wait).  Awaits that *)
(* never suspend (put on an unbounded queue, awaiting a plain coroutine,   *)
(* acquiring a free lock, get on a non-empty queue) stay inside a step.    *)
(*                                                                         *)
(* Time is an integer clock.  rate_limit, rate_limit_window, request_delay *)
(* and default_wait stand for the program's 30 requests, 60 s, 2 s and     *)
(* 60 s, scaled down to keep the state space finite.                       *)
(***************************************************************************)
EXTENDS Integers, Sequences, FiniteSets, TLC

\* ---- bounds of the model ------------------------------------------------
MaxTime == 4
MaxSent == 4
MaxOps == 2
MaxTasks == 2
MaxFids == 2
MaxAlliance == 1
SchedMaxSent == 1
MaxQueued == 3

\* ---- program constants (scaled) -----------------------------------------
rate_limit == 2
rate_limit_window == 3
request_delay == 1
default_wait == 3

VARIABLES
    now,                  \* time.time(), in clock ticks
    api_requests,         \* self.api_requests: timestamps, in append order
    api_available,        \* self.api_available
    probe,                \* check_api_availability calls awaiting their response
    alliance_locks,       \* self.alliance_locks: key -> lock object (an index of locks)
    locks,                \* the asyncio.Lock objects created so far
    operation_queue,      \* self.operation_queue: the pending operations, oldest first
    unfinished_tasks,     \* the queue's count of put() not yet matched by task_done()
    current_operation,    \* self.current_operation
    queue_processor_task, \* self.queue_processor_task: an index of tasks, 0 for None
    tasks,                \* every consumer task created so far
    batch,                \* the fetch_player_batch call of each caller
    ret,                  \* what the limiter last returned to a caller, and when
    history,              \* every timestamp _record_api_request ever appended
    sent,                 \* requests that reached the remote service
    status                \* what became of each submitted operation, by submission number

vars == << now, api_requests, api_available, probe, alliance_locks, locks,
           operation_queue, unfinished_tasks, current_operation,
           queue_processor_task, tasks, batch, ret, history, sent, status >>

limiterVars == << api_requests, api_available, probe, ret, history, sent >>
lockVars == << alliance_locks, locks >>
queueVars == << operation_queue, unfinished_tasks, current_operation,
                queue_processor_task, tasks, status >>

\* ---- values ---------------------------------------------------------------
Max(a, b) == IF a >= b THEN a ELSE b

\* An alliance id is None, an int or a str; database ids are positive.
NoAlliance == << "none", 0 >>
IntAlliance(n) == << "int", n >>
StrAlliance(n) == << "str", n >>
OpAlliances == {NoAlliance} \cup { IntAlliance(n) : n \in 1..MaxAlliance }
                            \cup { StrAlliance(n) : n \in 1..MaxAlliance }
\* fetch_player_batch declares alliance_id: Optional[str]
BatchAlliances == {NoAlliance} \cup { StrAlliance(n) : n \in 1..MaxAlliance }

\* Python truth value of an alliance id: None is false, a positive id is true.
Truthy(a) == a # NoAlliance
\* a consumer that keyed the lock by the raw alliance_id
Str_Raw(a) == a

\* str(operation['alliance_id'])
Str(a) == << "str", a[2] >>

\* the fetch_player_batch calls that can be in progress at once
Callers == {0, 1}

NoOp == [id |-> 0, alliance_id |-> NoAlliance, was_queued |-> FALSE, position |-> 0]
IdleBatch == [pc |-> "idle", alliance_id |-> NoAlliance, total |-> 0, i |-> 0,
              attempt |-> 1, results |-> << >>, wake |-> 0, lock |-> 0, task |-> 0]
NewTask == [pc |-> "new", operation |-> NoOp, must_cancel |-> FALSE, lock |-> 0,
            cancel_called |-> FALSE]

TaskProc(i) == [kind |-> "task", id |-> i]
BatchProc(c) == [kind |-> "batch", id |-> c]

\* ---- the rate limiter ------------------------------------------------------
InWindow(t, at) == at - t < rate_limit_window

\* the list comprehension of lines 126 and 329
Evict(reqs, at) == SelectSeq(reqs, LAMBDA t : InWindow(t, at))

\* a _check_rate_limit that still permits with rate_limit calls in the window
CheckRateLimit_AtLimit(reqs, at) ==
    LET kept == SelectSeq(reqs, LAMBDA t : at - t < rate_limit_window) IN
    IF Len(kept) <= rate_limit
    THEN [reqs |-> kept, can |-> TRUE, wait |-> 0]
    ELSE [reqs |-> kept, can |-> FALSE,
          wait |-> Max(0, rate_limit_window - (at - kept[1]))]

\* a _check_rate_limit that waits for the newest request to expire
CheckRateLimit_Newest(reqs, at) ==
    LET kept == SelectSeq(reqs, LAMBDA t : at - t < rate_limit_window) IN
    IF Len(kept) < rate_limit
    THEN [reqs |-> kept, can |-> TRUE, wait |-> 0]
    ELSE [reqs |-> kept, can |-> FALSE,
          wait |-> Max(0, IF Len(kept) > 0
                          THEN rate_limit_window - (at - kept[Len(kept)]) ELSE 0)]

\* _check_rate_limit at clock `at`: the new api_requests and (can_request, wait_time)
CheckRateLimit(reqs, at) ==
    LET kept == Evict(reqs, at) IN
    IF Len(kept) < rate_limit
    THEN [reqs |-> kept, can |-> TRUE, wait |-> 0]
    ELSE [reqs |-> kept, can |-> FALSE,
          wait |-> Max(0, IF Len(kept) > 0
                          THEN rate_limit_window - (at - kept[1]) ELSE 0)]

\* _record_api_request
RecordApiRequest(reqs, at) == Append(reqs, at)

\* a get_rate_limit_info that reports without evicting
RateLimitInfo_NoEvict(reqs, at) ==
    [reqs |-> reqs, api_used |-> Len(reqs), api_remaining |-> rate_limit - Len(reqs),
     total_available |-> rate_limit - Len(reqs)]

\* get_rate_limit_info at clock `at`
RateLimitInfo(reqs, at) ==
    LET kept == Evict(reqs, at) IN
    [reqs |-> kept, api_used |-> Len(kept), api_remaining |-> rate_limit - Len(kept),
     total_available |-> rate_limit - Len(kept)]

CheckRet(chk) ==
    [op |-> "check", at |-> now, n |-> Len(history), can |-> chk.can,
     wait |-> chk.wait, used |-> Len(chk.reqs), remaining |-> rate_limit - Len(chk.reqs)]

\* ---- the lock registry -----------------------------------------------------
NewLock == [locked |-> FALSE, waiters |-> << >>]

\* a get_alliance_lock that makes a new lock on every call
GetAllianceLock_Fresh(reg, lks, key) ==
    [reg |-> [k \in DOMAIN reg \cup {key} |-> IF k = key THEN Len(lks) + 1 ELSE reg[k]],
     locks |-> Append(lks, NewLock), lock |-> Len(lks) + 1]

\* get_alliance_lock: the registry and lock objects after the call, and the lock returned
GetAllianceLock(reg, lks, key) ==
    IF key \in DOMAIN reg
    THEN [reg |-> reg, locks |-> lks, lock |-> reg[key]]
    ELSE [reg |-> reg @@ (key :> Len(lks) + 1), locks |-> Append(lks, NewLock),
          lock |-> Len(lks) + 1]

\* asyncio.Lock.acquire takes a lock at once when it is free and nobody waits for it
LockFree(lk) == ~lk.locked /\ lk.waiters = << >>
\* a waiter is granted the lock when it is free and the waiter is first in line
LockGrantable(lk, p) == ~lk.locked /\ lk.waiters # << >> /\ Head(lk.waiters) = p

Take(lks, l) == [lks EXCEPT ![l].locked = TRUE]
Enqueue(lks, l, p) == [lks EXCEPT ![l].waiters = Append(@, p)]
Grant(lks, l) == [lks EXCEPT ![l].locked = TRUE, ![l].waiters = Tail(@)]
Withdraw(lks, l, p) == [lks EXCEPT ![l].waiters = SelectSeq(@, LAMBDA q : q # p)]
\* an async with block that leaves its lock locked
Release_Keep(lks, l) == lks

\* asyncio.Lock.release, at the end of an async with block (l = 0: no lock was used)
Release(lks, l) == IF l = 0 THEN lks ELSE [lks EXCEPT ![l].locked = FALSE]

\* ---- the clock -----------------------------------------------------------
Tick ==
    /\ now < MaxTime
    /\ now' = now + 1
    /\ UNCHANGED << limiterVars, lockVars, queueVars, batch >>

\* ---- introspection and the availability probe ----------------------------
\* get_rate_limit_info
GetRateLimitInfo ==
    LET info == RateLimitInfo(api_requests, now) IN
    /\ api_requests' = info.reqs
    /\ ret' = [op |-> "info", at |-> now, n |-> Len(history), can |-> TRUE, wait |-> 0,
               used |-> info.api_used, remaining |-> info.api_remaining]
    /\ UNCHANGED << now, api_available, probe, history, sent, lockVars, queueVars, batch >>

\* check_api_availability up to its await of session.post: the probe request goes
\* out to the same endpoint, or building or connecting it fails
CheckApiAvailability ==
    /\ ~probe
    /\ \/ /\ sent < MaxSent
          /\ sent' = sent + 1
          /\ probe' = TRUE
          /\ UNCHANGED api_available
       \/ /\ api_available' = FALSE
          /\ UNCHANGED << sent, probe >>
    /\ UNCHANGED << now, api_requests, ret, history, lockVars, queueVars, batch >>

\* the probe's response: status in [200, 429], or something else or an exception.
\* Nothing is appended to api_requests.
ProbeResponse(ok) ==
    /\ probe
    /\ probe' = FALSE
    /\ api_available' = ok
    /\ UNCHANGED << now, api_requests, ret, history, sent, lockVars, queueVars, batch >>

\* ---- fetch_player_batch ---------------------------------------------------
Holds(p) == p.lock # 0 /\ p.pc # "acquire"

\* _fetch_batch_internal from its first line: an empty fid list returns at once
EnterBatch(b) ==
    IF b.total = 0
    THEN [b EXCEPT !.pc = "done", !.lock = 0, !.task = 0]
    ELSE [b EXCEPT !.pc = "fetch"]

\* a _fetch_batch_internal that waits and retries as long as the result is
\* rate_limited
AfterFetch_RetryAgain(b, st, wait) ==
    LET res == IF b.attempt = 1 THEN Append(b.results, st)
               ELSE [b.results EXCEPT ![Len(b.results)] = st] IN
    IF st = "rate_limited"
    THEN [b EXCEPT !.results = res, !.pc = "wait", !.wake = now + wait]
    ELSE IF b.i < b.total - 1
    THEN [b EXCEPT !.results = res, !.pc = "delay", !.wake = now + request_delay]
    ELSE [b EXCEPT !.results = res, !.pc = "done", !.lock = 0, !.wake = 0,
                   !.i = 0, !.attempt = 1, !.task = 0]

\* lines 293-310 for the result of one fetch_player_data call: store it, then wait
\* and retry (first attempt, rate_limited), sleep request_delay, or return
AfterFetch(b, st, wait) ==
    LET res == IF b.attempt = 1 THEN Append(b.results, st)
               ELSE [b.results EXCEPT ![Len(b.results)] = st] IN
    IF b.attempt = 1 /\ st = "rate_limited"
    THEN [b EXCEPT !.results = res, !.pc = "wait", !.wake = now + wait]
    ELSE IF b.i < b.total - 1
    THEN [b EXCEPT !.results = res, !.pc = "delay", !.wake = now + request_delay]
    ELSE [b EXCEPT !.results = res, !.pc = "done", !.lock = 0, !.wake = 0,
                   !.i = 0, !.attempt = 1, !.task = 0]

\* the async with of line 276 ends when the batch returns
LocksAfter(b, nb) == IF nb.pc = "done" THEN Release(locks, b.lock) ELSE locks

\* fetch_player_batch(fids, None, a) with len(fids) = n, in call slot c.  The caller
\* is the callback running in consumer task `owner`, which awaits the batch, or
\* (owner = 0) a coroutine outside the queue.
BatchCall(c, n, a, owner) ==
    /\ batch[c].pc \in {"idle", "done"}
    /\ IF owner # 0
       THEN /\ owner \in 1..Len(tasks)
            /\ tasks[owner].pc = "callback"
            /\ ~tasks[owner].must_cancel
            /\ \A d \in Callers : batch[d].task # owner
       ELSE TRUE
    /\ LET b == [IdleBatch EXCEPT !.alliance_id = a, !.total = n, !.task = owner] IN
       IF Truthy(a)
       THEN LET g == GetAllianceLock(alliance_locks, locks, a) IN
            /\ alliance_locks' = g.reg
            /\ IF LockFree(g.locks[g.lock])
               THEN LET nb == EnterBatch([b EXCEPT !.lock = g.lock]) IN
                    /\ batch' = [batch EXCEPT ![c] = nb]
                    /\ locks' = IF nb.pc = "done" THEN g.locks ELSE Take(g.locks, g.lock)
               ELSE /\ batch' = [batch EXCEPT ![c] = [b EXCEPT !.pc = "acquire", !.lock = g.lock]]
                    /\ locks' = Enqueue(g.locks, g.lock, BatchProc(c))
       ELSE /\ batch' = [batch EXCEPT ![c] = EnterBatch(b)]
            /\ UNCHANGED lockVars
    /\ UNCHANGED << now, limiterVars, queueVars >>

\* the lock a batch waited for is granted
BatchAcquire(c) ==
    /\ batch[c].pc = "acquire"
    /\ LockGrantable(locks[batch[c].lock], BatchProc(c))
    /\ LET nb == EnterBatch(batch[c]) IN
       /\ batch' = [batch EXCEPT ![c] = nb]
       /\ locks' = IF nb.pc = "done" THEN [locks EXCEPT ![batch[c].lock].waiters = Tail(@)]
                   ELSE Grant(locks, batch[c].lock)
    /\ UNCHANGED << now, limiterVars, alliance_locks, queueVars >>

\* fetch_player_data up to its first suspension: rejected by the limiter, rejected
\* because the API is marked unavailable, failed before anything was sent, or sent
\* (the model follows the program up to `cap` requests sent)
FetchPlayerData(c, cap) ==
    /\ batch[c].pc = "fetch"
    /\ LET chk == CheckRateLimit(api_requests, now) IN
       /\ api_requests' = chk.reqs
       /\ ret' = CheckRet(chk)
       /\ IF ~chk.can
          THEN LET nb == AfterFetch(batch[c], "rate_limited", chk.wait) IN
               /\ batch' = [batch EXCEPT ![c] = nb]
               /\ locks' = LocksAfter(batch[c], nb)
               /\ UNCHANGED sent
          ELSE IF ~api_available
          THEN LET nb == AfterFetch(batch[c], "error", 0) IN
               /\ batch' = [batch EXCEPT ![c] = nb]
               /\ locks' = LocksAfter(batch[c], nb)
               /\ UNCHANGED sent
          ELSE \/ /\ sent < cap
                  /\ sent' = sent + 1
                  /\ batch' = [batch EXCEPT ![c].pc = "inflight"]
                  /\ UNCHANGED locks
               \/ LET nb == AfterFetch(batch[c], "error", 0) IN
                  /\ batch' = [batch EXCEPT ![c] = nb]
                  /\ locks' = LocksAfter(batch[c], nb)
                  /\ UNCHANGED sent
    /\ UNCHANGED << now, api_available, probe, history, alliance_locks, queueVars >>

\* what fetch_player_data returns for a response that arrived
Responses == {"success", "not_found", "error", "rate_limited"}

\* the response arrives: _record_api_request, then the result by status and body
\* (a 429 carries no wait_time, so the batch waits default_wait)
Response(c, st) ==
    /\ batch[c].pc = "inflight"
    /\ api_requests' = RecordApiRequest(api_requests, now)
    /\ history' = Append(history, now)
    /\ LET nb == AfterFetch(batch[c], st, default_wait) IN
       /\ batch' = [batch EXCEPT ![c] = nb]
       /\ locks' = LocksAfter(batch[c], nb)
    /\ UNCHANGED << now, api_available, probe, ret, sent, alliance_locks, queueVars >>

\* the request went out and session.post raised instead of answering
ResponseFails(c) ==
    /\ batch[c].pc = "inflight"
    /\ LET nb == AfterFetch(batch[c], "error", 0) IN
       /\ batch' = [batch EXCEPT ![c] = nb]
       /\ locks' = LocksAfter(batch[c], nb)
    /\ UNCHANGED << now, limiterVars, alliance_locks, queueVars >>

\* asyncio.sleep(wait_time) of line 300 is over: the retry
WakeRetry(c) ==
    /\ batch[c].pc = "wait"
    /\ now >= batch[c].wake
    /\ batch' = [batch EXCEPT ![c].pc = "fetch", ![c].attempt = 2, ![c].wake = 0]
    /\ UNCHANGED << now, limiterVars, lockVars, queueVars >>

\* asyncio.sleep(request_delay) of line 308 is over: the next fid
DelayDone(c) ==
    /\ batch[c].pc = "delay"
    /\ now >= batch[c].wake
    /\ batch' = [batch EXCEPT ![c].pc = "fetch", ![c].attempt = 1, ![c].wake = 0,
                              ![c].i = @ + 1]
    /\ UNCHANGED << now, limiterVars, lockVars, queueVars >>

\* the fetch steps of the callers cs, for batches of ns fids under the alliance ids
\* als, called from the tasks (or, 0, from outside the queue) in owners, with the
\* responses sts
FetchNext(cs, ns, als, owners, sts, cap) ==
    \/ \E c \in cs, n \in ns, a \in als, o \in owners : BatchCall(c, n, a, o)
    \/ \E c \in cs : FetchPlayerData(c, cap)
    \/ \E c \in cs, st \in sts : Response(c, st)
    \/ \E c \in cs : ResponseFails(c)

RetryNext(cs) ==
    \/ \E c \in cs : WakeRetry(c)
    \/ \E c \in cs : DelayDone(c)

ProbeNext ==
    \/ CheckApiAvailability
    \/ \E ok \in BOOLEAN : ProbeResponse(ok)

\* ---- the operation queue and its consumer ---------------------------------
\* a start_queue_processor that creates a task without looking at the old one
NeedsProcessor_Always == TRUE

\* the test of line 339: not self.queue_processor_task or self.queue_processor_task.done()
NeedsProcessor ==
    IF queue_processor_task = 0 THEN TRUE ELSE tasks[queue_processor_task].pc = "done"

\* start_queue_processor, called on its own
StartQueueProcessor ==
    /\ NeedsProcessor
    /\ Len(tasks) < MaxTasks
    /\ tasks' = Append(tasks, NewTask)
    /\ queue_processor_task' = Len(tasks) + 1
    /\ UNCHANGED << now, limiterVars, lockVars, operation_queue, unfinished_tasks,
                    current_operation, status, batch >>

\* a queue_operation that reads qsize() before the put
QueuePosition_Before(q, op) == Len(q)

\* lines 360-361 and 364: what queue_operation returns, qsize() read after the put
QueuePosition(q, op) == Len(Append(q, op))

\* an operation_queue created with maxsize 1, whose put waits for room
QueueFull_Bounded(q) == Len(q) >= 1

\* line 47: asyncio.Queue() has maxsize 0, so it is never full and put never waits
QueueFull(q) == FALSE

\* queue_operation({alliance_id: a, ...}): put, then start_queue_processor; nothing
\* in it suspends.  Of the operation's other entries only 'interaction' is ever
\* read, once, at line 391: CallbackRaises draws it there.  The position returned
\* is kept with the operation.  (The model follows the program up to `cap`
\* submissions.)
QueueOperation(a, cap) ==
    /\ Len(status) < cap
    /\ NeedsProcessor => Len(tasks) < MaxTasks
    /\ ~QueueFull(operation_queue)
    /\ LET op0 == [id |-> Len(status) + 1, alliance_id |-> a,
                   was_queued |-> Len(operation_queue) > 0, position |-> 0]
           op == [op0 EXCEPT !.position = QueuePosition(operation_queue, op0)] IN
       /\ operation_queue' = Append(operation_queue, op)
       /\ unfinished_tasks' = unfinished_tasks + 1
       /\ status' = Append(status, "queued")
    /\ IF NeedsProcessor
       THEN /\ tasks' = Append(tasks, NewTask)
            /\ queue_processor_task' = Len(tasks) + 1
       ELSE UNCHANGED << tasks, queue_processor_task >>
    /\ UNCHANGED << now, limiterVars, lockVars, current_operation, batch >>

\* task.cancel() on a consumer task that has not finished
Cancel(i) ==
    /\ tasks[i].pc # "done"
    /\ ~tasks[i].must_cancel
    /\ tasks' = [tasks EXCEPT ![i].must_cancel = TRUE, ![i].cancel_called = TRUE]
    /\ UNCHANGED << now, limiterVars, lockVars, operation_queue, unfinished_tasks,
                    current_operation, queue_processor_task, status, batch >>

\* the task's first step: line 368, then it waits in operation_queue.get()
TaskStart(i) ==
    /\ tasks[i].pc = "new"
    /\ ~tasks[i].must_cancel
    /\ tasks' = [tasks EXCEPT ![i].pc = "get"]
    /\ UNCHANGED << now, limiterVars, lockVars, operation_queue, unfinished_tasks,
                    current_operation, queue_processor_task, status, batch >>

\* a queue that hands out the newest operation
QueueGet_Newest(q) == [item |-> q[Len(q)], rest |-> SubSeq(q, 1, Len(q) - 1)]

\* asyncio.Queue.get on a non-empty queue: the oldest item, and what stays queued
QueueGet(q) == [item |-> Head(q), rest |-> Tail(q)]

\* lines 373-382: get returns the oldest operation; with an alliance_id the lock of
\* str(alliance_id) is taken if free, else the task waits for it
Dequeue(i) ==
    /\ tasks[i].pc = "get"
    /\ ~tasks[i].must_cancel
    /\ operation_queue # << >>
    /\ LET op == QueueGet(operation_queue).item IN
       /\ operation_queue' = QueueGet(operation_queue).rest
       /\ current_operation' = op
       /\ IF Truthy(op.alliance_id)
          THEN LET g == GetAllianceLock(alliance_locks, locks, Str(op.alliance_id)) IN
               /\ alliance_locks' = g.reg
               /\ IF LockFree(g.locks[g.lock])
                  THEN /\ locks' = Take(g.locks, g.lock)
                       /\ tasks' = [tasks EXCEPT ![i].pc = "callback", ![i].operation = op,
                                                 ![i].lock = g.lock]
                       /\ status' = [status EXCEPT ![op.id] = "running"]
                  ELSE /\ locks' = Enqueue(g.locks, g.lock, TaskProc(i))
                       /\ tasks' = [tasks EXCEPT ![i].pc = "acquire", ![i].operation = op,
                                                 ![i].lock = g.lock]
                       /\ status' = [status EXCEPT ![op.id] = "waiting"]
          ELSE /\ tasks' = [tasks EXCEPT ![i].pc = "callback", ![i].operation = op]
               /\ status' = [status EXCEPT ![op.id] = "running"]
               /\ UNCHANGED lockVars
    /\ UNCHANGED << now, limiterVars, unfinished_tasks, queue_processor_task, batch >>

\* the alliance lock the task waited for is granted: the callback starts
TaskAcquire(i) ==
    /\ tasks[i].pc = "acquire"
    /\ ~tasks[i].must_cancel
    /\ LockGrantable(locks[tasks[i].lock], TaskProc(i))
    /\ locks' = Grant(locks, tasks[i].lock)
    /\ tasks' = [tasks EXCEPT ![i].pc = "callback"]
    /\ status' = [status EXCEPT ![tasks[i].operation.id] = "running"]
    /\ UNCHANGED << now, limiterVars, alliance_locks, operation_queue, unfinished_tasks,
                    current_operation, queue_processor_task, batch >>

\* the callback is not waiting for a fetch_player_batch call of its own
CallbackFree(i) == \A c \in Callers : batch[c].task # i

\* the finally block of lines 399-401, and the task back in operation_queue.get()
Finally(i, pc) ==
    /\ current_operation' = NoOp
    /\ unfinished_tasks' = unfinished_tasks - 1
    /\ tasks' = [tasks EXCEPT ![i].pc = pc, ![i].operation = NoOp, ![i].lock = 0,
                              ![i].must_cancel = FALSE]

\* the callback returns: the lock is released, lines 386 and 399-401
CallbackReturns(i) ==
    /\ tasks[i].pc = "callback"
    /\ ~tasks[i].must_cancel
    /\ CallbackFree(i)
    /\ locks' = Release(locks, tasks[i].lock)
    /\ status' = [status EXCEPT ![tasks[i].operation.id] = "returned"]
    /\ Finally(i, "get")
    /\ UNCHANGED << now, limiterVars, alliance_locks, operation_queue,
                    queue_processor_task, batch >>

\* the callback raises an Exception: lines 388-397; with an interaction in the
\* operation (inter) the task awaits followup.send before the finally block
CallbackRaises(i, inter) ==
    /\ tasks[i].pc = "callback"
    /\ ~tasks[i].must_cancel
    /\ CallbackFree(i)
    /\ locks' = Release(locks, tasks[i].lock)
    /\ status' = [status EXCEPT ![tasks[i].operation.id] = "raised"]
    /\ IF inter
       THEN /\ tasks' = [tasks EXCEPT ![i].pc = "report", ![i].lock = 0]
            /\ UNCHANGED << current_operation, unfinished_tasks >>
       ELSE Finally(i, "get")
    /\ UNCHANGED << now, limiterVars, alliance_locks, operation_queue,
                    queue_processor_task, batch >>

\* the callback raises asyncio.CancelledError of its own (it awaited something that
\* was cancelled) while nobody cancelled the task: a BaseException, so line 388 does
\* not catch it, the finally block runs and line 403 ends the loop
CallbackRaisesCancelled(i) ==
    /\ tasks[i].pc = "callback"
    /\ ~tasks[i].must_cancel
    /\ CallbackFree(i)
    /\ locks' = Release(locks, tasks[i].lock)
    /\ status' = [status EXCEPT ![tasks[i].operation.id] = "cancelled"]
    /\ Finally(i, "done")
    /\ UNCHANGED << now, limiterVars, alliance_locks, operation_queue,
                    queue_processor_task, batch >>

\* followup.send returned or raised (the bare except of line 396 passes)
ReportDone(i) ==
    /\ tasks[i].pc = "report"
    /\ ~tasks[i].must_cancel
    /\ Finally(i, "get")
    /\ UNCHANGED << now, limiterVars, lockVars, operation_queue, queue_processor_task,
                    status, batch >>

\* a cancelled task that never ran, or waits in operation_queue.get(): it ends
CancelIdle(i) ==
    /\ tasks[i].must_cancel
    /\ tasks[i].pc \in {"new", "get"}
    /\ tasks' = [tasks EXCEPT ![i].pc = "done", ![i].must_cancel = FALSE]
    /\ UNCHANGED << now, limiterVars, lockVars, operation_queue, unfinished_tasks,
                    current_operation, queue_processor_task, status, batch >>

\* CancelledError while waiting for the alliance lock: the callback never runs,
\* the finally block runs, line 403 ends the loop
CancelAcquire(i) ==
    /\ tasks[i].must_cancel
    /\ tasks[i].pc = "acquire"
    /\ locks' = Withdraw(locks, tasks[i].lock, TaskProc(i))
    /\ status' = [status EXCEPT ![tasks[i].operation.id] = "abandoned"]
    /\ Finally(i, "done")
    /\ UNCHANGED << now, limiterVars, alliance_locks, operation_queue,
                    queue_processor_task, batch >>

\* CancelledError reaches the batch the callback awaits: it leaves the lock it held
\* or waited for; a request in flight stays sent
AbortBatch(i, c, lks) ==
    IF batch[c].task # i THEN lks
    ELSE IF batch[c].pc = "acquire" THEN Withdraw(lks, batch[c].lock, BatchProc(c))
    ELSE Release(lks, batch[c].lock)

AbortBatches(i, lks) == AbortBatch(i, 1, AbortBatch(i, 0, lks))

BatchesAfterAbort(i) ==
    [c \in Callers |-> IF batch[c].task = i THEN IdleBatch ELSE batch[c]]

\* CancelledError is thrown into the running callback.  The callback lets it
\* through (lock released, finally block, line 403 ends the loop) or catches it
\* and goes on.
CancelCallback(i) ==
    /\ tasks[i].must_cancel
    /\ tasks[i].pc = "callback"
    /\ batch' = BatchesAfterAbort(i)
    /\ \/ /\ locks' = Release(AbortBatches(i, locks), tasks[i].lock)
          /\ status' = [status EXCEPT ![tasks[i].operation.id] = "cancelled"]
          /\ Finally(i, "done")
       \/ /\ locks' = AbortBatches(i, locks)
          /\ tasks' = [tasks EXCEPT ![i].must_cancel = FALSE]
          /\ UNCHANGED << status, current_operation, unfinished_tasks >>
    /\ UNCHANGED << now, limiterVars, alliance_locks, operation_queue,
                    queue_processor_task >>

\* CancelledError is thrown into followup.send: the bare except of line 396
\* swallows it, the finally block runs and the loop goes on
CancelReport(i) ==
    /\ tasks[i].must_cancel
    /\ tasks[i].pc = "report"
    /\ Finally(i, "get")
    /\ UNCHANGED << now, limiterVars, lockVars, operation_queue, queue_processor_task,
                    status, batch >>

\* callers of start_queue_processor and queue_operation, submitting up to cap
\* operations under the alliance ids als
SubmitNext(als, cap) ==
    \/ StartQueueProcessor
    \/ \E a \in als : QueueOperation(a, cap)

\* the steps of the consumer tasks that nobody is cancelling and that do not wait
\* for a lock; inters says whether the operations whose callback raises carry an
\* interaction
RunNext(inters) ==
    \/ \E i \in 1..Len(tasks) : TaskStart(i)
    \/ \E i \in 1..Len(tasks) : Dequeue(i)
    \/ \E i \in 1..Len(tasks) : CallbackReturns(i)
    \/ \E i \in 1..Len(tasks), inter \in inters : CallbackRaises(i, inter)
    \/ \E i \in 1..Len(tasks) : CallbackRaisesCancelled(i)

\* the steps of the consumer tasks that nobody is cancelling
ConsumerNext(inters) ==
    \/ RunNext(inters)
    \/ \E i \in 1..Len(tasks) : TaskAcquire(i)

\* the error report of lines 391-397, for operations that carry an interaction
ReportNext ==
    \/ \E i \in 1..Len(tasks) : ReportDone(i)
    \/ \E i \in 1..Len(tasks) : CancelReport(i)

\* task.cancel() and the CancelledError it delivers
CancelNext ==
    \/ \E i \in 1..Len(tasks) : Cancel(i)
    \/ \E i \in 1..Len(tasks) : CancelIdle(i)
    \/ \E i \in 1..Len(tasks) : CancelAcquire(i)
    \/ \E i \in 1..Len(tasks) : CancelCallback(i)

\* get_queue_info
GetQueueInfo ==
    [queue_size |-> Len(operation_queue), current_operation |-> current_operation,
     is_processing |-> current_operation # NoOp]

QueueNext ==
    \/ SubmitNext(OpAlliances, MaxOps)
    \/ ConsumerNext(BOOLEAN)
    \/ ReportNext
    \/ CancelNext

Init ==
    /\ now = 0
    /\ api_requests = << >>
    /\ api_available = TRUE
    /\ probe = FALSE
    /\ alliance_locks = << >>
    /\ locks = << >>
    /\ operation_queue = << >>
    /\ unfinished_tasks = 0
    /\ current_operation = NoOp
    /\ queue_processor_task = 0
    /\ tasks = << >>
    /\ batch = [c \in Callers |-> IdleBatch]
    /\ ret = [op |-> "none", at |-> 0, n |-> 0, can |-> TRUE, wait |-> 0,
              used |-> 0, remaining |-> rate_limit]
    /\ history = << >>
    /\ sent = 0
    /\ status = << >>

\* ---- specifications ----------------------------------------------------------
\* the whole program
Next ==
    \/ Tick
    \/ GetRateLimitInfo
    \/ ProbeNext
    \/ FetchNext(Callers, 0..MaxFids, BatchAlliances, 0..MaxTasks, Responses, MaxSent)
    \/ \E c \in Callers : BatchAcquire(c)
    \/ RetryNext(Callers)
    \/ QueueNext

Spec == Init /\ [][Next]_vars

\* one caller fetching batches, the probe and the introspection, over time
BatchNext ==
    \/ Tick
    \/ GetRateLimitInfo
    \/ ProbeNext
    \/ FetchNext({1}, 0..MaxFids, BatchAlliances, {0}, Responses, MaxSent)
    \/ RetryNext({1})

BatchSpec == Init /\ [][BatchNext]_vars

\* the limiter as one caller, the probe and the introspection drive it over time,
\* with no alliance lock involved
LimiterNext ==
    \/ Tick
    \/ GetRateLimitInfo
    \/ ProbeNext
    \/ FetchNext({1}, 0..MaxFids, {NoAlliance}, {0}, Responses, MaxSent)
    \/ RetryNext({1})

LimiterSpec == Init /\ [][LimiterNext]_vars

\* two callers outside the queue fetching at the same time
RaceNext ==
    \/ Tick
    \/ FetchNext(Callers, 1..MaxFids, {NoAlliance}, {0}, Responses, MaxSent)
    \/ RetryNext(Callers)

RaceSpec == Init /\ [][RaceNext]_vars

\* the queue and its consumer, with callbacks that fetch a batch and a caller
\* outside the queue that does, at a fixed clock
SchedNext ==
    \/ QueueNext
    \/ FetchNext({0}, 0..1, BatchAlliances, 1..MaxTasks, {"success"}, SchedMaxSent)
    \/ FetchNext({1}, 0..1, BatchAlliances, {0}, {"success"}, SchedMaxSent)
    \/ \E c \in Callers : BatchAcquire(c)

SchedSpec == Init /\ [][SchedNext]_vars

\* the queue, its consumer and a fetch_player_batch caller outside the queue
\* competing for the alliance locks, at a fixed clock: operations of any alliance,
\* batches of one fid for alliance 1
GroupNext ==
    \/ QueueNext
    \/ FetchNext({1}, {1}, {StrAlliance(1)}, {0}, {"success"}, SchedMaxSent)
    \/ BatchAcquire(1)

GroupSpec == Init /\ [][GroupNext]_vars

\* producers submitting ungrouped operations to a consumer that nobody cancels
ProducerNext ==
    \/ SubmitNext({NoAlliance}, MaxQueued)
    \/ RunNext({FALSE})

SubmitSpec == Init /\ [][ProducerNext]_vars

\* ---- claims -------------------------------------------------------------------
\* the request timestamps held in api_requests that lie in the window ending now
InWindowNow == { k \in 1..Len(api_requests) : now - api_requests[k] < rate_limit_window }

\* C1: in every reachable state, whatever the interleaving of concurrent
\* fetch_player_data / fetch_player_batch callers, api_requests never holds more
\* than rate_limit timestamps within the last rate_limit_window (the reported
\* remaining count is never negative).
C1_WindowWithinLimit == Cardinality(InWindowNow) <= rate_limit

\* ---- group exclusion (C2) -------------------------------------------------------
\* the number n of the alliance an id names, whatever its Python type
AllianceOf(a) == a[2]

\* consumer task i is inside the callback of an operation of alliance n
TaskWorksFor(i, n) ==
    /\ tasks[i].pc = "callback"
    /\ Truthy(tasks[i].operation.alliance_id)
    /\ AllianceOf(tasks[i].operation.alliance_id) = n

\* call c is inside _fetch_batch_internal for alliance n
BatchWorksFor(c, n) ==
    /\ batch[c].pc \in {"fetch", "inflight", "wait", "delay"}
    /\ Truthy(batch[c].alliance_id)
    /\ AllianceOf(batch[c].alliance_id) = n

WorkersFor(n) ==
    { TaskProc(i) : i \in { j \in 1..Len(tasks) : TaskWorksFor(j, n) } }
        \cup { BatchProc(c) : c \in { d \in Callers : BatchWorksFor(d, n) } }

InCallback == { i \in 1..Len(tasks) : tasks[i].pc = "callback" }

\* C3: at most one queued operation's callback is executing at any instant, after
\* any sequence of submissions, consumer starts, callback completions and failures,
\* and cancellations followed by restarts.
C3_OneCallbackAtATime == Cardinality(InCallback) <= 1

\* C3 witness: the first consumer was cancelled and has ended, and a restarted
\* consumer is inside a callback.
C3_Witness ==
    /\ Len(tasks) = 2
    /\ tasks[1].pc = "done"
    /\ tasks[1].cancel_called
    /\ tasks[2].pc = "callback"

\* ---- FIFO (C4) -------------------------------------------------------------------
NoCancelCalled == \A i \in 1..Len(tasks) : ~tasks[i].cancel_called
LiveTasks == { i \in 1..Len(tasks) : tasks[i].pc # "done" }
Begun == {"running", "returned", "raised", "cancelled"}
Completed == {"returned", "raised", "cancelled"}

\* C4: queued operations are dequeued and executed strictly in submission order,
\* regardless of group: for operations A then B submitted in that order, A is
\* dequeued first and, producers and the consumer interleaving in any way, A's
\* callback has fully completed (returned or raised) before B's callback begins.
\* (A consumer cancelled from outside while it waits for A's alliance lock drops A
\* without running it; B then still begins only after A is gone.)
C4_Fifo ==
    \A a, b \in 1..Len(status) :
        a < b =>
            /\ status[b] # "queued" => status[a] # "queued"
            /\ status[b] \in Begun => status[a] \in Completed \cup {"abandoned"}
            /\ (NoCancelCalled /\ status[b] \in Begun) => status[a] \in Completed

\* C4 witness: the second operation's callback runs after the first one's raised.
C4_Witness ==
    /\ Len(status) = 2
    /\ status[1] = "raised"
    /\ status[2] = "running"

\* ---- failure isolation (C5) and the life of the consumer (C6) ---------------------

\* C5: if the callback of operation A raises (any fault), the consumer loop keeps
\* running and every operation B submitted after A is still dequeued and executed:
\* with nobody having cancelled a consumer, a failed A never leaves a later B in the
\* queue without a live consumer to take it.
C5_FailureIsolation ==
    \A a, b \in 1..Len(status) :
        (a < b /\ status[a] \in {"raised", "cancelled"} /\ status[b] = "queued"
               /\ NoCancelCalled)
            => LiveTasks # {}

\* C6: the consumer loop never exits except on deliberate cancellation of the
\* consumer task: a consumer task that has ended is one that was cancelled.
C6_ExitsOnlyWhenCancelled ==
    \A i \in 1..Len(tasks) : tasks[i].pc = "done" => tasks[i].cancel_called

\* ---- every request sent is recorded once (C7) --------------------------------------
\* requests sent whose response has not arrived yet
InFlight ==
    Cardinality({ c \in Callers : batch[c].pc = "inflight" }) + (IF probe THEN 1 ELSE 0)

\* C7: every request actually sent to the remote service adds exactly one timestamp
\* to api_requests, and a fetch rejected locally adds none: the timestamps ever
\* appended are as many as the requests sent and answered or failed.
C7_SentIsRecordedOnce == Len(history) + InFlight = sent

\* ---- the limiter's answers (C8, C9, C10) ------------------------------------------
\* the calls recorded before the limiter's last answer that lay in the window then
WindowAtRet == { k \in 1..ret.n : ret.at - history[k] < rate_limit_window }
AllInWindowAtRet == \A k \in 1..ret.n : ret.at - history[k] < rate_limit_window
OldestAtRet ==
    CHOOSE t \in { history[k] : k \in WindowAtRet } :
        \A k \in WindowAtRet : t <= history[k]

\* C8: for N recorded calls all lying within one window, N <= rate_limit, the
\* limiter reports used = N and remaining = rate_limit - N, and _check_rate_limit
\* permits exactly when N < rate_limit; once the window holds rate_limit calls it
\* refuses with a wait strictly greater than 0.
C8_CountsWithinWindow ==
    /\ (ret.op \in {"check", "info"} /\ AllInWindowAtRet /\ ret.n <= rate_limit)
          => /\ ret.used = ret.n
             /\ ret.remaining = rate_limit - ret.n
             /\ ret.op = "check" => (ret.can <=> ret.n < rate_limit)
    /\ (ret.op = "check" /\ Cardinality(WindowAtRet) = rate_limit)
          => (~ret.can /\ ret.wait > 0)

\* C8 witness: get_rate_limit_info answers with rate_limit calls in the window.
C8_Witness ==
    /\ ret.op = "info"
    /\ ret.n = rate_limit
    /\ AllInWindowAtRet
    /\ ret.used = rate_limit
    /\ ret.remaining = 0

\* C9: a refusing _check_rate_limit returns rate_limit_window - (now - oldest
\* timestamp still in the window), floored at 0, a permitting one returns 0; with
\* the clock fixed, the first check gives (true, 0), the check after rate_limit
\* records gives (false, rate_limit_window), and the check made
\* rate_limit_window + 1 later gives (true, 0).
C9_WaitTime ==
    ret.op = "check" =>
        /\ ret.can => ret.wait = 0
        /\ ~ret.can =>
              /\ WindowAtRet # {}
              /\ ret.wait = Max(0, rate_limit_window - (ret.at - OldestAtRet))
        /\ ret.n = 0 => (ret.can /\ ret.wait = 0)
        /\ (ret.n = rate_limit /\ \A k \in 1..ret.n : history[k] = ret.at)
              => (~ret.can /\ ret.wait = rate_limit_window)
        /\ (ret.n = rate_limit
              /\ \A k \in 1..ret.n : ret.at = history[k] + rate_limit_window + 1)
              => (ret.can /\ ret.wait = 0)

\* C9 witness: rate_limit records at one clock value, and the check at that value
\* refuses with the whole window as the wait.
C9_Witness ==
    /\ ret.op = "check"
    /\ ret.n = rate_limit
    /\ \A k \in 1..ret.n : history[k] = ret.at
    /\ ~ret.can
    /\ ret.wait = rate_limit_window

\* C10: a call recorded at t0 counts at every check or introspection made before
\* t0 + rate_limit_window and at none made later; each _check_rate_limit and
\* get_rate_limit_info evicts, and removes only timestamps out of the window
\* (a timestamp exactly rate_limit_window old is out).
C10_SlidingEviction ==
    /\ api_requests = SelectSeq(history, LAMBDA t : ret.at - t < rate_limit_window)
    /\ ret.used = Cardinality(WindowAtRet)
    /\ \A k \in 1..Len(api_requests) : ret.at - api_requests[k] < rate_limit_window

\* C10 witness: an introspection made after a recorded call left the window
\* counts nothing, and the call is gone from api_requests.
C10_Witness ==
    /\ ret.op = "info"
    /\ ret.n >= 1
    /\ ret.at > history[ret.n] + rate_limit_window
    /\ ret.used = 0
    /\ api_requests = << >>

\* ---- queue positions (C11) --------------------------------------------------------
\* C11: queue_operation returns the size of the queue immediately after appending
\* the operation (1 if it becomes the sole pending item), so operations submitted
\* one after another, none dequeued meanwhile, receive 1, 2, 3 in submission order.
C11_QueuePosition ==
    [][Len(status') > Len(status) =>
          LET op == operation_queue'[Len(operation_queue')] IN
          /\ op.id = Len(status')
          /\ op.position = Len(operation_queue')
          /\ operation_queue = << >> => op.position = 1
          /\ (\A k \in 1..Len(status) : status[k] = "queued") => op.position = op.id
      ]_vars

\* C11 witness: three ungrouped operations submitted one after another wait in the
\* queue with the positions 1, 2, 3.
C11_Witness ==
    /\ Len(operation_queue) = 3
    /\ \A j \in 1..3 : /\ operation_queue[j].alliance_id = NoAlliance
                       /\ operation_queue[j].id = j
                       /\ operation_queue[j].position = j

\* ---- submission never blocks (C12) --------------------------------------------------
\* the operations waiting in the queue, by submission number
Pending == { operation_queue[j].id : j \in 1..Len(operation_queue) }

\* C12: submission is non-blocking and cannot fail: in every reachable state (any
\* queue depth, any alliance lock held, the consumer waiting for a lock or inside a
\* callback) a queue_operation call can be made and completes at once (as long as
\* the model has a submission and, where one is needed, a consumer task left to
\* follow), and no operation is dropped: the operations not yet dequeued are
\* exactly those in the queue, in submission order.
C12_SubmissionNeverBlocks ==
    /\ (Len(status) < MaxOps /\ (NeedsProcessor => Len(tasks) < MaxTasks))
          => ENABLED (\E a \in OpAlliances : QueueOperation(a, MaxOps))
    /\ \A k \in 1..Len(status) : status[k] = "queued" <=> k \in Pending
    /\ \A j \in 1..Len(operation_queue) - 1 :
          operation_queue[j].id < operation_queue[j + 1].id

\* C12 witness: the consumer waits for the alliance lock of the first operation,
\* which a batch holds, and the second operation, submitted meanwhile into the
\* empty queue, is pending.
C12_Witness ==
    /\ \E i \in 1..Len(tasks) : tasks[i].pc = "acquire" /\ tasks[i].operation.id = 1
    /\ batch[1].pc \in {"fetch", "inflight"}
    /\ Len(operation_queue) = 1
    /\ operation_queue[1].id = 2
    /\ operation_queue[1].position = 1
    /\ status[2] = "queued"

\* ---- idempotent consumer startup (C13) ----------------------------------------------
\* C13: after any number of start_queue_processor / queue_operation calls at most
\* one live (not finished) consumer task exists, the one queue_processor_task
\* names; a new consumer task is created only when there is none or the previous
\* one has finished, so every task but the newest has finished.
C13_OneLiveConsumer ==
    /\ Cardinality(LiveTasks) <= 1
    /\ \A i \in LiveTasks : i = queue_processor_task
    /\ \A i \in 1..Len(tasks) - 1 : tasks[i].pc = "done"

\* C13 witness: two queue_operation calls were made and the consumer the first one
\* started is still the only task, alive.
C13_Witness ==
    /\ Len(status) = 2
    /\ Len(tasks) = 1
    /\ tasks[1].pc # "done"
    /\ queue_processor_task = 1

\* ---- cancellation and the running callback (C14) -------------------------------------
\* C14: cancelling the consumer task never forcibly interrupts an in-flight
\* callback: a callback that has started runs to its own end (it returns or
\* raises), whatever cancellation is pending on its task; the cancellation never
\* ends it.
C14_CancelSparesCallback ==
    [][\A i \in 1..Len(tasks) :
          (tasks[i].pc = "callback" /\ tasks[i].must_cancel)
              => status'[tasks[i].operation.id] \in {"running", "returned", "raised"}
      ]_vars

\* ---- check and record as one step (C15) ----------------------------------------------
\* C15: the rate-limit check and the recording of the call it permits form one
\* logical step: while a fetch that was permitted waits for its response (between
\* its _check_rate_limit and its _record_api_request), no other fetch records a
\* request and no other fetch runs its _check_rate_limit.
C15_CheckAndRecordTogether ==
    [][\A c \in Callers :
          (batch[c].pc = "inflight" /\ batch'[c].pc = "inflight")
              => /\ history' = history
                 /\ \A d \in Callers \ {c} :
                       batch[d].pc = "fetch" => batch'[d] = batch[d]
      ]_vars

\* ---- the consumer between operations (C16) -------------------------------------------
\* the consumer tasks inside an operation: waiting for its lock, in its callback,
\* or reporting its failure
InOperation == { i \in 1..Len(tasks) : tasks[i].pc \in {"acquire", "callback", "report"} }

\* who holds lock l: consumer tasks inside a callback entered under it, and batches
\* running under it
LockHolders(l) ==
    { TaskProc(i) : i \in { j \in 1..Len(tasks) :
                              tasks[j].pc = "callback" /\ tasks[j].lock = l } }
        \cup { BatchProc(c) : c \in { d \in Callers :
                                  batch[d].pc \in {"fetch", "inflight", "wait", "delay"}
                                  /\ batch[d].lock = l } }

\* C16: whenever the consumer is not inside an operation (waiting on the queue, or
\* stopped), current_operation is None, get_queue_info reports is_processing
\* false and the consumer holds no alliance lock, however the last operation
\* ended; a lock is locked exactly while one holder is inside its block, so no
\* holder spans more than one operation; and task_done has been called exactly
\* once per operation dequeued and ended.
C16_IdleConsumerIsClean ==
    /\ InOperation = {}
          => /\ current_operation = NoOp
             /\ ~GetQueueInfo.is_processing
             /\ \A l \in 1..Len(locks) :
                   locks[l].locked => \E c \in Callers : BatchProc(c) \in LockHolders(l)
    /\ \A i \in InOperation : current_operation = tasks[i].operation
    /\ \A l \in 1..Len(locks) :
          Cardinality(LockHolders(l)) = (IF locks[l].locked THEN 1 ELSE 0)
    /\ unfinished_tasks = Len(operation_queue) + Cardinality(InOperation)

\* C16 witness: the consumer was cancelled while it waited for a lock that a batch
\* still holds, and has stopped.
C16_Witness ==
    /\ \E k \in 1..Len(status) : status[k] = "abandoned"
    /\ InOperation = {}
    /\ LiveTasks = {}
    /\ \E l \in 1..Len(locks) : locks[l].locked

\* ---- the lock registry (C17) ---------------------------------------------------------
\* the registry key of the alliance that an alliance id names
KeyOf(a) == StrAlliance(AllianceOf(a))

\* the registry as it stands: one entry and one lock object per alliance, and every
\* lock a consumer task or a batch was given is its alliance's entry
OneLockPerAlliance ==
    /\ \A k1, k2 \in DOMAIN alliance_locks :
          AllianceOf(k1) = AllianceOf(k2) => k1 = k2
    /\ \A k1, k2 \in DOMAIN alliance_locks :
          alliance_locks[k1] = alliance_locks[k2] => k1 = k2
    /\ Cardinality(DOMAIN alliance_locks) = Len(locks)
    /\ \A i \in 1..Len(tasks) :
          tasks[i].lock # 0
              => /\ KeyOf(tasks[i].operation.alliance_id) \in DOMAIN alliance_locks
                 /\ alliance_locks[KeyOf(tasks[i].operation.alliance_id)] = tasks[i].lock
    /\ \A c \in Callers :
          batch[c].lock # 0
              => /\ KeyOf(batch[c].alliance_id) \in DOMAIN alliance_locks
                 /\ alliance_locks[KeyOf(batch[c].alliance_id)] = batch[c].lock

BatchInStep(b) ==
    /\ b.attempt \in {1, 2}
    /\ b.i < b.total
    /\ b.pc \in {"fetch", "inflight"}
          => /\ Len(b.results) = b.i + (b.attempt - 1)
             /\ b.attempt = 2 => b.results[b.i + 1] = "rate_limited"
    /\ b.pc = "wait"
          => /\ b.attempt = 1
             /\ Len(b.results) = b.i + 1
             /\ b.results[b.i + 1] = "rate_limited"
    /\ b.pc = "delay"
          => /\ Len(b.results) = b.i + 1
             /\ b.i < b.total - 1
             /\ b.attempt = 1 => b.results[b.i + 1] # "rate_limited"

\* C18: a batch fetch returns exactly one result per input fid, in input order;
\* for each fid fetch_player_data is attempted once and, only when that attempt's
\* result is rate_limited, exactly once more after waiting in place (the retry's
\* result replacing the first), never more than two attempts per fid, and nothing
\* is submitted to the operation queue.
C18_OneResultPerFid ==
    /\ \A c \in Callers :
          /\ batch[c].pc = "done" => Len(batch[c].results) = batch[c].total
          /\ batch[c].pc \in {"fetch", "inflight", "wait", "delay"} => BatchInStep(batch[c])
          /\ batch[c].pc \in {"idle", "acquire"} => batch[c].results = << >>
    /\ status = << >>
    /\ operation_queue = << >>

\* C18 witness: a batch of two fids has returned two results, the second one
\* rate_limited, which only a retry leaves behind.
C18_Witness ==
    /\ batch[1].pc = "done"
    /\ batch[1].total = 2
    /\ batch[1].results \in { << st, "rate_limited" >> : st \in Responses }

\* ---- the advertised wait (C19) -------------------------------------------------------
\* C19: the advertised wait is sufficient: if _check_rate_limit returned
\* (False, w) at time t and no request was recorded since, then from time t + w on
\* _check_rate_limit returns (True, 0), so the retry of _fetch_batch_internal after
\* sleeping w is not rejected locally.
C19_AdvertisedWaitSuffices ==
    (ret.op = "check" /\ ~ret.can /\ Len(history) = ret.n /\ now >= ret.at + ret.wait)
        => LET chk == CheckRateLimit(api_requests, now) IN chk.can /\ chk.wait = 0

\* ---- lock acquisitions that cannot end (C20) -----------------------------------------
\* call c waits for the very lock that the consumer task awaiting it holds
WaitsBehindOwnCaller(c) ==
    /\ batch[c].pc = "acquire"
    /\ batch[c].task # 0
    /\ tasks[batch[c].task].pc = "callback"
    /\ tasks[batch[c].task].lock = batch[c].lock

\* C20: no acquisition of an alliance lock waits forever, also when a queued
\* operation carrying an alliance_id runs a callback that calls fetch_player_batch
\* with that same alliance_id: no fetch_player_batch call ever waits for a lock
\* that only its own caller, which is waiting for the call, can release.
C20_NoAcquireWaitsForever == \A c \in Callers : ~WaitsBehindOwnCaller(c)

=============================================================================
